---- MODULE Spec2Model ----
(***************************************************************************)
(* Model of pump_sizing_app.py: the PumpSizingCalculator engine.           *)
(*                                                                         *)
(* Python floats are modelled as decimal floating-point numbers with a     *)
(* four-digit mantissa: the record [k |-> "fin", m |-> M, e |-> E] is the  *)
(* number M * 10^E with M = 0 or 1000 <= |M| <= 9999.  Every operation     *)
(* rounds (towards zero) to four digits.  The exponent E is not bounded:   *)
(* the overflow and underflow of a double at 10^308 and 10^-324 are not    *)
(* modelled, and the inputs stay far from them.  The other kinds are       *)
(* "inf" (m is the sign), "nan", "cplx" (a complex number, which is what   *)
(* Python's ** returns for a negative base and a fractional power) and     *)
(* "none" (Python's None).                                                 *)
(***************************************************************************)
EXTENDS Integers, Sequences, FiniteSets, TLC

VARIABLES
    selector,      \* the argument __init__ was called with (a string, as characters)
    constructed,   \* TRUE iff __init__ returned an engine
    unit_system,   \* self.unit_system
    inputs,        \* self.inputs
    results,       \* self.results
    diag,          \* what the most recent call reported through st.error
    last,          \* the most recent call: [op, arg, err, ret]
    last_calc,     \* outcome of the most recent calculate_pump_sizing: never, ok, failed
    ncalls,        \* number of calls made on the engine so far
    hw_args,       \* arguments of a direct call of _calculate_friction_loss_hw
    hw_ret         \* what that call returned and reported: [called, hf, diag]

vars == <<selector, constructed, unit_system, inputs, results, diag, last, last_calc,
          ncalls, hw_args, hw_ret>>

---------------------------------------------------------------------------
(* Bounds of the model.                                                    *)

\* calls made on one engine after its construction
MaxCalls == 4
\* largest fitting quantity in an input record
MaxQty == 2
\* number of grid steps of the positive flow rates, lengths and C-factors
MaxSteps == 2

---------------------------------------------------------------------------
(* Float arithmetic.                                                       *)

\* ln 10 and ln 2 in units of 10^-4
LN10 == 23026
LN2 == 6931

None == [k |-> "none", m |-> 0, e |-> 0]
Zero == [k |-> "fin", m |-> 0, e |-> 0]
PosInf == [k |-> "inf", m |-> 1, e |-> 0]
NegInf == [k |-> "inf", m |-> -1, e |-> 0]
NaN == [k |-> "nan", m |-> 0, e |-> 0]
Cplx == [k |-> "cplx", m |-> 0, e |-> 0]

Abs(n) == IF n < 0 THEN -n ELSE n
Sgn(n) == IF n < 0 THEN -1 ELSE IF n = 0 THEN 0 ELSE 1

RECURSIVE Pow10(_)
Pow10(n) == IF n <= 0 THEN 1 ELSE 10 * Pow10(n - 1)

\* mantissa a >= 0 brought into 1000..9999 (rounding towards zero), exponent adjusted
RECURSIVE NormAbs(_, _)
NormAbs(a, e) ==
    IF a = 0 THEN <<0, 0>>
    ELSE IF a >= 10000 THEN NormAbs(a \div 10, e + 1)
    ELSE IF a < 1000 THEN NormAbs(a * 10, e - 1)
    ELSE <<a, e>>

\* the float of sign sg and normalised <<mantissa, exponent>> n
Pack(sg, n) ==
    IF n[1] = 0 THEN Zero ELSE [k |-> "fin", m |-> sg * n[1], e |-> n[2]]

\* the float nearest to m * 10^e
F(m, e) == Pack(Sgn(m), NormAbs(Abs(m), e))

IsFin(a) == a.k = "fin"
IsZero(a) == a.k = "fin" /\ a.m = 0
\* Python truthiness of a number or None
Truthy(a) == ~(a.k = "none" \/ IsZero(a))

FNeg(a) == IF a.k \in {"fin", "inf"} THEN [a EXCEPT !.m = -a.m] ELSE a

\* a < b, for floats (fin or inf); FALSE when either is nan
FLt(a, b) ==
    CASE a.k = "nan" \/ b.k = "nan" -> FALSE
      [] a.k = "inf" /\ b.k = "inf" -> a.m < b.m
      [] a.k = "inf" -> a.m < 0
      [] b.k = "inf" -> b.m > 0
      [] OTHER ->
            IF Sgn(a.m) # Sgn(b.m) THEN a.m < b.m
            ELSE IF a.m = 0 THEN FALSE
            ELSE IF a.e # b.e THEN (IF a.m > 0 THEN a.e < b.e ELSE a.e > b.e)
            ELSE a.m < b.m
FLe(a, b) == a.k # "nan" /\ b.k # "nan" /\ ~FLt(b, a)

\* hi + lo for nonzero finite floats with hi.e >= lo.e, d = hi.e - lo.e
AddAligned(hi, lo, d) ==
    IF d > 8 THEN hi
    ELSE F(hi.m * 10000
             + (IF d <= 4 THEN lo.m * Pow10(4 - d)
                ELSE Sgn(lo.m) * (Abs(lo.m) \div Pow10(d - 4))),
           hi.e - 4)

FAddFin(a, b) ==
    IF a.m = 0 THEN b
    ELSE IF b.m = 0 THEN a
    ELSE IF a.e >= b.e THEN AddAligned(a, b, a.e - b.e)
    ELSE AddAligned(b, a, b.e - a.e)

FAdd(a, b) ==
    CASE a.k = "cplx" \/ b.k = "cplx" -> Cplx
      [] a.k = "nan" \/ b.k = "nan" -> NaN
      [] a.k = "inf" /\ b.k = "inf" -> IF a.m = b.m THEN a ELSE NaN
      [] a.k = "inf" -> a
      [] b.k = "inf" -> b
      [] OTHER -> FAddFin(a, b)

FSub(a, b) == FAdd(a, FNeg(b))

FMul(a, b) ==
    CASE a.k = "cplx" \/ b.k = "cplx" -> Cplx
      [] a.k = "nan" \/ b.k = "nan" -> NaN
      [] a.k = "inf" \/ b.k = "inf" ->
            IF IsZero(a) \/ IsZero(b) THEN NaN
            ELSE IF Sgn(a.m) * Sgn(b.m) > 0 THEN PosInf ELSE NegInf
      [] OTHER -> F(a.m * b.m, a.e + b.e)

\* a / b for b nonzero (Python raises ZeroDivisionError otherwise: see the callers)
FDiv(a, b) ==
    CASE a.k = "cplx" \/ b.k = "cplx" -> Cplx
      [] a.k = "nan" \/ b.k = "nan" -> NaN
      [] a.k = "inf" /\ b.k = "inf" -> NaN
      [] a.k = "inf" -> IF Sgn(a.m) * Sgn(b.m) > 0 THEN PosInf ELSE NegInf
      [] b.k = "inf" -> Zero
      [] OTHER ->
            F(Sgn(a.m) * Sgn(b.m) * ((Abs(a.m) * 100000) \div Abs(b.m)), a.e - b.e - 5)

\* 2 atanh(z) = 2 z (1 + z^2/3 + z^4/5 + z^6/7 + z^8/9), z and z2 = z^2 in units of 10^-4
Atanh2(z, z2) ==
    2 * (z + (z * ((z2 * (3333 + (z2 * (2000 + (z2 * (1429 + (z2 * 1111) \div 10000))
                                              \div 10000)) \div 10000)) \div 10000))
              \div 10000)

\* ln(m / d) for 1 <= m / d < 2, in units of 10^-4: 2 atanh((m - d) / (m + d))
LnRatio(z) == Atanh2(z, (z * z) \div 10000)

\* ln(m / 1000) for 1000 <= m <= 9999, in units of 10^-4: m / 1000 = 2^j * y, 1 <= y < 2
LnMant(m) ==
    IF m < 2000 THEN LnRatio(((m - 1000) * 10000) \div (m + 1000))
    ELSE IF m < 4000 THEN LnRatio(((m - 2000) * 10000) \div (m + 2000)) + LN2
    ELSE IF m < 8000 THEN LnRatio(((m - 4000) * 10000) \div (m + 4000)) + 2 * LN2
    ELSE LnRatio(((m - 8000) * 10000) \div (m + 8000)) + 3 * LN2

\* ln a for a finite a > 0, in units of 10^-4
Ln(a) == LnMant(a.m) + (a.e + 3) * LN10

\* al * (pi + pf / 10^4) for al >= 0, without leaving 32 bits
MulSplit(al, pi, pf) ==
    al * pi + ((al \div 100) * pf) \div 100 + ((al % 100) * pf) \div 10000

\* l * p / 10^4 for a logarithm l (units of 10^-4) and an exponent p (units of 10^-4)
MulFix(l, p) == Sgn(l) * MulSplit(Abs(l), p \div 10000, p % 10000)

\* e^(s / 10^4) in units of 10^-4, for 0 <= s < ln 2: the Taylor series to s^6
ExpSeries(s) ==
    10000 + (s * (10000 + (s * (10000 + (s * (10000 + (s * (10000 + (s * (10000
        + s \div 6)) \div 50000)) \div 40000)) \div 30000)) \div 20000)) \div 10000

\* 10^k * 2^j * e^(s / 10^4)
ExpParts(k, j, s) ==
    F(ExpSeries(s) * (IF j = 0 THEN 1 ELSE IF j = 1 THEN 2 ELSE IF j = 2 THEN 4 ELSE 8),
      k - 4)

\* e^(l / 10^4) as a float: l = k ln 10 + j ln 2 + s with 0 <= s < ln 2
Exp(l) == ExpParts(l \div LN10, (l % LN10) \div LN2, (l % LN10) % LN2)

\* a ** p for a float a and a positive fractional exponent p in units of 10^-4
FPow(a, p) ==
    CASE a.k = "cplx" -> Cplx
      [] a.k = "nan" -> NaN
      [] a.k = "inf" -> IF a.m > 0 THEN PosInf ELSE Cplx
      [] a.m = 0 -> Zero
      [] a.m < 0 -> Cplx
      [] OTHER -> Exp(MulFix(Ln(a), p))

\* the float of an integer, and of a decimal literal n / 10^d
I(n) == F(n, 0)
Dec(n, d) == F(n, -d)

---------------------------------------------------------------------------
(* Strings that the code transforms are sequences of characters.           *)

Imperial == <<"i", "m", "p", "e", "r", "i", "a", "l">>
Si == <<"s", "i">>

UpperCase == <<"A", "B", "C", "D", "E", "F", "G", "H", "I", "J", "K", "L", "M",
               "N", "O", "P", "Q", "R", "S", "T", "U", "V", "W", "X", "Y", "Z">>
LowerCase == <<"a", "b", "c", "d", "e", "f", "g", "h", "i", "j", "k", "l", "m",
               "n", "o", "p", "q", "r", "s", "t", "u", "v", "w", "x", "y", "z">>

\* str.lower() of one character
LowerChar(c) ==
    IF \E i \in 1..26 : UpperCase[i] = c
    THEN LowerCase[CHOOSE i \in 1..26 : UpperCase[i] = c]
    ELSE c

\* str.lower()
Lower(s) == [i \in 1..Len(s) |-> LowerChar(s[i])]

\* Replace as it would be had the replacement been forgotten
ReplaceNoop(s, old, new) == s

\* str.replace(old, new) for single characters
Replace(s, old, new) == [i \in 1..Len(s) |-> IF s[i] = old THEN new ELSE s[i]]

\* the keys of self.inputs in the order __init__ inserts them
KeyOrder ==
    <<"fluid_sg", "pump_efficiency", "flow_rate", "suction_static_head",
      "discharge_static_head", "suction_pressure", "discharge_pressure",
      "suction_pipe_length", "suction_pipe_id", "suction_c_factor", "suction_fittings",
      "discharge_pipe_length", "discharge_pipe_id", "discharge_c_factor",
      "discharge_fittings">>

Keys == {KeyOrder[i] : i \in 1..Len(KeyOrder)}

\* the characters of each key
Chars ==
    [fluid_sg |-> <<"f", "l", "u", "i", "d", "_", "s", "g">>,
     pump_efficiency |-> <<"p", "u", "m", "p", "_", "e", "f", "f", "i", "c", "i", "e", "n", "c", "y">>,
     flow_rate |-> <<"f", "l", "o", "w", "_", "r", "a", "t", "e">>,
     suction_static_head |-> <<"s", "u", "c", "t", "i", "o", "n", "_", "s", "t", "a", "t", "i", "c", "_", "h", "e", "a", "d">>,
     discharge_static_head |-> <<"d", "i", "s", "c", "h", "a", "r", "g", "e", "_", "s", "t", "a", "t", "i", "c", "_", "h", "e", "a", "d">>,
     suction_pressure |-> <<"s", "u", "c", "t", "i", "o", "n", "_", "p", "r", "e", "s", "s", "u", "r", "e">>,
     discharge_pressure |-> <<"d", "i", "s", "c", "h", "a", "r", "g", "e", "_", "p", "r", "e", "s", "s", "u", "r", "e">>,
     suction_pipe_length |-> <<"s", "u", "c", "t", "i", "o", "n", "_", "p", "i", "p", "e", "_", "l", "e", "n", "g", "t", "h">>,
     suction_pipe_id |-> <<"s", "u", "c", "t", "i", "o", "n", "_", "p", "i", "p", "e", "_", "i", "d">>,
     suction_c_factor |-> <<"s", "u", "c", "t", "i", "o", "n", "_", "c", "_", "f", "a", "c", "t", "o", "r">>,
     suction_fittings |-> <<"s", "u", "c", "t", "i", "o", "n", "_", "f", "i", "t", "t", "i", "n", "g", "s">>,
     discharge_pipe_length |-> <<"d", "i", "s", "c", "h", "a", "r", "g", "e", "_", "p", "i", "p", "e", "_", "l", "e", "n", "g", "t", "h">>,
     discharge_pipe_id |-> <<"d", "i", "s", "c", "h", "a", "r", "g", "e", "_", "p", "i", "p", "e", "_", "i", "d">>,
     discharge_c_factor |-> <<"d", "i", "s", "c", "h", "a", "r", "g", "e", "_", "c", "_", "f", "a", "c", "t", "o", "r">>,
     discharge_fittings |-> <<"d", "i", "s", "c", "h", "a", "r", "g", "e", "_", "f", "i", "t", "t", "i", "n", "g", "s">>]

---------------------------------------------------------------------------
(* PumpSizingCalculator.                                                   *)

\* a dict of fittings: its items, a sequence of <<fitting type, quantity>>
Dict(items) == [k |-> "dict", d |-> items]

NoErr == [type |-> "none", msg |-> <<>>]
ValueError(msg) == [type |-> "ValueError", msg |-> msg]
ZeroDivisionError(msg) == [type |-> "ZeroDivisionError", msg |-> msg]

\* an attribute that was never assigned
Absent == [k |-> "absent"]

\* self.inputs as __init__ fills it
DefaultInputs ==
    [fluid_sg |-> Dec(10, 1),
     pump_efficiency |-> Dec(70, 2),
     flow_rate |-> None,
     suction_static_head |-> None,
     discharge_static_head |-> None,
     suction_pressure |-> Zero,
     discharge_pressure |-> Zero,
     suction_pipe_length |-> Zero,
     suction_pipe_id |-> None,
     suction_c_factor |-> I(120),
     suction_fittings |-> Dict(<<>>),
     discharge_pipe_length |-> Zero,
     discharge_pipe_id |-> None,
     discharge_c_factor |-> I(120),
     discharge_fittings |-> Dict(<<>>)]

\* self.fitting_equivalent_lengths_D
fitting_equivalent_lengths_D ==
    [gate_valve_open |-> I(8),
     globe_valve_open |-> I(340),
     check_valve_swing |-> I(100),
     check_valve_lift |-> I(600),
     45_elbow_std |-> I(16),
     90_elbow_std |-> I(30),
     90_elbow_long_radius |-> I(20),
     tee_branch |-> I(60),
     tee_run |-> I(20),
     foot_valve_strainer |-> I(420),
     entrance_sharp |-> Dec(5, 1),
     exit_loss |-> Dec(10, 1)]

\* dict.get(key): None for a key the catalog does not hold
CatalogGet(fitting_type) ==
    IF fitting_type \in DOMAIN fitting_equivalent_lengths_D
    THEN fitting_equivalent_lengths_D[fitting_type]
    ELSE None

\* __init__ as it would be without the call of lower()
InitNoLower(sel) ==
    IF sel \notin {Imperial, Si}
    THEN [ok |-> FALSE,
          err |-> ValueError(<<"Unit system must be 'imperial' or 'si'.">>),
          unit_system |-> Absent, inputs |-> Absent, results |-> Absent]
    ELSE [ok |-> TRUE, err |-> NoErr,
          unit_system |-> sel, inputs |-> DefaultInputs, results |-> <<>>]

\* __init__(unit_system): the engine, or the error raised
__init__(sel) ==
    IF Lower(sel) \notin {Imperial, Si}
    THEN [ok |-> FALSE,
          err |-> ValueError(<<"Unit system must be 'imperial' or 'si'.">>),
          unit_system |-> Absent, inputs |-> Absent, results |-> Absent]
    ELSE [ok |-> TRUE, err |-> NoErr,
          unit_system |-> Lower(sel), inputs |-> DefaultInputs, results |-> <<>>]

\* the loop of set_inputs as it would be without the test `key in self.inputs`
RECURSIVE SetLoopAny(_, _, _)
SetLoopAny(inp, items, i) ==
    IF i > Len(items) THEN inp
    ELSE SetLoopAny((items[i][1] :> items[i][2]) @@ inp, items, i + 1)

\* set_inputs: the loop over input_dict.items(), from item i on
RECURSIVE SetLoop(_, _, _)
SetLoop(inp, items, i) ==
    IF i > Len(items) THEN inp
    ELSE SetLoop(IF items[i][1] \in DOMAIN inp
                 THEN [inp EXCEPT ![items[i][1]] = items[i][2]]
                 ELSE inp,
                 items, i + 1)

set_inputs(inp, input_dict) == SetLoop(inp, input_dict, 1)

_convert_flow_rate_for_hw(us, flow_rate) ==
    IF us = Imperial THEN flow_rate ELSE FDiv(flow_rate, I(3600))

\* K_hw as a float, D_exp in units of 10^-4
_get_hw_constants(us) ==
    IF us = Imperial THEN <<Dec(2083, 6), 48655>> ELSE <<Dec(1067, 2), 48655>>

\* the body of the loop as it would be with the imperial diameter left in inches
AddFittingInches(us, pipe_id, quantity, l_d_ratio, total) ==
    IF Truthy(l_d_ratio) /\ quantity > 0
    THEN FAdd(total, FMul(FMul(I(quantity), l_d_ratio), pipe_id))
    ELSE total

\* the body of the loop over fittings.items(): the running total after one item
AddFitting(us, pipe_id, quantity, l_d_ratio, total) ==
    IF Truthy(l_d_ratio) /\ quantity > 0
    THEN IF us = Imperial
         THEN FAdd(total, FMul(FMul(I(quantity), l_d_ratio), FDiv(pipe_id, I(12))))
         ELSE FAdd(total, FMul(FMul(I(quantity), l_d_ratio), pipe_id))
    ELSE total

\* the loop over fittings.items(), from item i on, with the running total
RECURSIVE FittingsLoop(_, _, _, _, _)
FittingsLoop(us, pipe_id, items, i, total) ==
    IF i > Len(items) THEN total
    ELSE FittingsLoop(us, pipe_id, items, i + 1,
                      AddFitting(us, pipe_id, items[i][2], CatalogGet(items[i][1]), total))

\* what the except clause does: st.error(...) and float('inf')
HWError(msg) == [hf |-> PosInf, diag |-> <<<<"Friction Loss Error: ", msg>>>>]

\* num / den: Python raises ZeroDivisionError for a zero divisor
HWQuotient(num, den) ==
    IF IsZero(den) THEN HWError("float division by zero")
    ELSE [hf |-> FDiv(num, den), diag |-> <<>>]

\* the try block of _calculate_friction_loss_hw, hw = <<K_hw, D_exp>>
HWTry(hw, total_equivalent_length, Q_hw, c_factor, D_for_formula) ==
    IF IsZero(c_factor) THEN HWError("C-Factor cannot be zero.")
    ELSE IF IsZero(D_for_formula) THEN HWError("Pipe ID cannot be zero.")
    ELSE HWQuotient(FMul(FMul(hw[1], total_equivalent_length),
                         FPow(FDiv(Q_hw, c_factor), 18520)),
                    FPow(D_for_formula, hw[2]))

\* _calculate_friction_loss_hw as it would be with a guard that tests the C-factor
\* for None only
HWNoCGuard(us, flow_rate, pipe_length, pipe_id, c_factor, fittings) ==
    IF ~(Truthy(flow_rate) /\ Truthy(pipe_id) /\ c_factor # None) \/ FLe(pipe_id, Zero)
    THEN [hf |-> Zero, diag |-> <<>>]
    ELSE HWTry(_get_hw_constants(us),
               FittingsLoop(us, pipe_id, fittings.d, 1, pipe_length),
               _convert_flow_rate_for_hw(us, flow_rate),
               c_factor,
               IF us = Imperial THEN FDiv(pipe_id, I(12)) ELSE pipe_id)

\* _calculate_friction_loss_hw: the value returned and the diagnostics emitted
_calculate_friction_loss_hw(us, flow_rate, pipe_length, pipe_id, c_factor, fittings) ==
    IF ~(Truthy(flow_rate) /\ Truthy(pipe_id) /\ Truthy(c_factor)) \/ FLe(pipe_id, Zero)
    THEN [hf |-> Zero, diag |-> <<>>]
    ELSE HWTry(_get_hw_constants(us),
               FittingsLoop(us, pipe_id, fittings.d, 1, pipe_length),
               _convert_flow_rate_for_hw(us, flow_rate),
               c_factor,
               IF us = Imperial THEN FDiv(pipe_id, I(12)) ELSE pipe_id)

\* the first key, from position i on, whose value is None; "" when there is none
RECURSIVE FirstNone(_, _)
FirstNone(inp, i) ==
    IF i > Len(KeyOrder) THEN ""
    ELSE IF inp[KeyOrder[i]] = None THEN KeyOrder[i]
    ELSE FirstNone(inp, i + 1)

ResultFields ==
    {"P1_head", "P2_head", "hf_suction", "hf_discharge", "hf_total", "TDH",
     "required_power", "power_unit"}

\* the power as it would be with 0 standing for an efficiency that is not positive
PowerZero(us, Q, TDH, SG, pump_eff) ==
    IF FLt(Zero, pump_eff)
    THEN IF us = Imperial
         THEN FDiv(FMul(FMul(Q, TDH), SG), FMul(I(3960), pump_eff))
         ELSE FDiv(FMul(FMul(FMul(FDiv(Q, I(3600)), TDH), FMul(SG, I(1000))), Dec(981, 2)),
                   FMul(pump_eff, I(1000)))
    ELSE Zero

\* lines 125-131: the required power
Power(us, Q, TDH, SG, pump_eff) ==
    IF us = Imperial
    THEN IF FLt(Zero, pump_eff)
         THEN FDiv(FMul(FMul(Q, TDH), SG), FMul(I(3960), pump_eff))
         ELSE PosInf
    ELSE IF FLt(Zero, pump_eff)
         THEN FDiv(FMul(FMul(FMul(FDiv(Q, I(3600)), TDH), FMul(SG, I(1000))), Dec(981, 2)),
                   FMul(pump_eff, I(1000)))
         ELSE PosInf

\* lines 125-137: the power, and the record stored in self.results
StoreResults(us, inp, P1_head, P2_head, s, d, hf_total, TDH) ==
    [err |-> NoErr,
     results |-> [P1_head |-> P1_head, P2_head |-> P2_head,
                  hf_suction |-> s.hf, hf_discharge |-> d.hf,
                  hf_total |-> hf_total, TDH |-> TDH,
                  required_power |-> Power(us, inp["flow_rate"], TDH, inp["fluid_sg"],
                                           inp["pump_efficiency"]),
                  power_unit |-> IF us = Imperial THEN "BHP" ELSE "kW"],
     diag |-> s.diag \o d.diag]

\* max(a, 0) for a finite float
ClampAtZero(a) == IF a.k = "fin" /\ a.m < 0 THEN Zero ELSE a

\* hf_total and TDH as they would be with a negative TDH clamped to zero
TotalHeadClamped(us, inp, P1_head, P2_head, s, d, hf_total) ==
    StoreResults(us, inp, P1_head, P2_head, s, d, hf_total,
                 ClampAtZero(FAdd(FAdd(FSub(inp["discharge_static_head"],
                                            inp["suction_static_head"]),
                                       FSub(P2_head, P1_head)),
                                  hf_total)))

\* lines 121-123: hf_total and TDH, s and d being the two friction-loss calls
TotalHead(us, inp, P1_head, P2_head, s, d, hf_total) ==
    StoreResults(us, inp, P1_head, P2_head, s, d, hf_total,
                 FAdd(FAdd(FSub(inp["discharge_static_head"], inp["suction_static_head"]),
                           FSub(P2_head, P1_head)),
                      hf_total))

\* lines 116-121: the pressure heads, the two friction losses and their sum
Heads(us, inp, pressure_conversion, s, d) ==
    TotalHead(us, inp,
              FMul(inp["suction_pressure"], pressure_conversion),
              FMul(inp["discharge_pressure"], pressure_conversion),
              s, d, FAdd(s.hf, d.hf))

\* the ValueError of line 113 for the key whose value is None
MissingInput(key) ==
    [err |-> ValueError(<<"Input for '", Replace(Chars[key], "_", " "), "' is missing.">>),
     results |-> <<>>, diag |-> <<>>]

\* calculate_pump_sizing: the error raised (or NoErr), self.results and the
\* diagnostics when it ends
calculate_pump_sizing(us, inp) ==
    IF FirstNone(inp, 1) # "" THEN MissingInput(FirstNone(inp, 1))
    ELSE IF IsZero(inp["fluid_sg"])
    THEN [err |-> ZeroDivisionError(<<"float division by zero">>),
          results |-> <<>>, diag |-> <<>>]
    ELSE Heads(us, inp,
               IF us = Imperial THEN FDiv(Dec(2307, 3), inp["fluid_sg"])
               ELSE FDiv(Dec(102, 3), inp["fluid_sg"]),
               _calculate_friction_loss_hw(us, inp["flow_rate"],
                   inp["suction_pipe_length"], inp["suction_pipe_id"],
                   inp["suction_c_factor"], inp["suction_fittings"]),
               _calculate_friction_loss_hw(us, inp["flow_rate"],
                   inp["discharge_pipe_length"], inp["discharge_pipe_id"],
                   inp["discharge_c_factor"], inp["discharge_fittings"]))

\* round(a / 10^n) to the nearest integer, ties to even, for a >= 0 and n >= 1
RoundDiv(a, n) ==
    IF n > 9 THEN 0
    ELSE IF 2 * (a % Pow10(n)) > Pow10(n)
            \/ (2 * (a % Pow10(n)) = Pow10(n) /\ (a \div Pow10(n)) % 2 = 1)
         THEN a \div Pow10(n) + 1
         ELSE a \div Pow10(n)

\* format_val: f"{value:.2f}" for a float, str(value) otherwise.  The text of a
\* finite number is its sign and its digits m * 10^e with e >= -2.
format_val(value) ==
    CASE value.k = "fin" ->
            IF value.e >= -2
            THEN [k |-> "2f", neg |-> value.m < 0, m |-> Abs(value.m), e |-> value.e]
            ELSE [k |-> "2f", neg |-> value.m < 0,
                  m |-> RoundDiv(Abs(value.m), -2 - value.e), e |-> -2]
      [] value.k = "inf" -> [k |-> IF value.m > 0 THEN "inf" ELSE "-inf"]
      [] value.k = "nan" -> [k |-> "nan"]
      [] OTHER -> [k |-> "str", v |-> value]

\* the lines of the summary as they would be with the two losses exchanged
SummaryLinesSwapped(res, unit_head, power_unit) ==
    << <<"### Calculation Results">>,
       <<"**Total Dynamic Head (TDH):** ", format_val(res["TDH"]), " ", unit_head>>,
       <<"**Required Power:** ", format_val(res["required_power"]), " ", power_unit>>,
       <<"---">>,
       <<"#### Head Breakdown">>,
       <<"**Total Friction Loss:** ", format_val(res["hf_total"]), " ", unit_head>>,
       <<" *  _Suction Loss:_ ", format_val(res["hf_discharge"]), " ", unit_head>>,
       <<" *  _Discharge Loss:_ ", format_val(res["hf_suction"]), " ", unit_head>> >>

\* lines 149-158: the lines of the summary of a result
SummaryLines(res, unit_head, power_unit) ==
    << <<"### Calculation Results">>,
       <<"**Total Dynamic Head (TDH):** ", format_val(res["TDH"]), " ", unit_head>>,
       <<"**Required Power:** ", format_val(res["required_power"]), " ", power_unit>>,
       <<"---">>,
       <<"#### Head Breakdown">>,
       <<"**Total Friction Loss:** ", format_val(res["hf_total"]), " ", unit_head>>,
       <<" *  _Suction Loss:_ ", format_val(res["hf_suction"]), " ", unit_head>>,
       <<" *  _Discharge Loss:_ ", format_val(res["hf_discharge"]), " ", unit_head>> >>

\* get_results_summary: the list returned
get_results_summary(us, res) ==
    IF DOMAIN res = {}
    THEN << <<"No results to display. Please run calculation.">> >>
    ELSE SummaryLines(res, IF us = Imperial THEN "feet" ELSE "meters", res["power_unit"])

---------------------------------------------------------------------------
(* The inputs of the model.                                                *)

\* the strings __init__ is called with
Selectors ==
    {Imperial, Si,
     <<"I", "m", "p", "e", "r", "i", "a", "l">>,
     <<"I", "M", "P", "E", "R", "I", "A", "L">>,
     <<"S", "I">>, <<"S", "i">>, <<"s", "I">>,
     <<"m", "e", "t", "r", "i", "c">>,
     <<"i", "m", "p", "e", "r", "i", "a", "l", " ">>,
     <<"s">>, <<>>}

\* the record the form sends with its default values (imperial scenario)
FormRecord ==
    << <<"flow_rate", I(100)>>, <<"fluid_sg", Dec(10, 1)>>,
       <<"pump_efficiency", Dec(75, 2)>>,
       <<"suction_static_head", I(5)>>, <<"discharge_static_head", I(50)>>,
       <<"suction_pressure", Zero>>, <<"discharge_pressure", Zero>>,
       <<"suction_pipe_length", I(20)>>, <<"suction_pipe_id", I(6)>>,
       <<"suction_c_factor", I(130)>>, <<"suction_fittings", Dict(<<>>)>>,
       <<"discharge_pipe_length", I(100)>>, <<"discharge_pipe_id", I(4)>>,
       <<"discharge_c_factor", I(120)>>, <<"discharge_fittings", Dict(<<>>)>> >>

\* the records set_inputs is called with: the form's record, and partial records
\* that change one or two fields, some with keys the engine does not know
InputRecords ==
    {FormRecord}
    \cup {<< <<"flow_rate", v>> >> : v \in {None, Zero, I(50)}}
    \cup {<< <<"pump_efficiency", v>> >> : v \in {Zero, Dec(-5, 1)}}
    \cup {<< <<"fluid_sg", Zero>> >>,
          << <<"suction_c_factor", Zero>> >>,
          << <<"fluid_sg", None>> >>,
          << <<"suction_pipe_id", Zero>>, <<"discharge_pipe_id", Zero>> >>,
          << <<"suction_static_head", I(50)>>, <<"discharge_static_head", I(5)>> >>,
          << <<"discharge_pressure", I(10)>>, <<"suction_pressure", I(2)>> >>,
          << <<"suction_pipe_length", Zero>>, <<"discharge_pipe_length", Zero>> >>,
          << <<"flowrate", I(7)>> >>,
          << <<"notes", I(1)>>, <<"flow_rate", I(100)>>, <<"Flow_Rate", None>> >>}
    \cup {<< <<"discharge_fittings", Dict(<< <<"90_elbow_std", q>> >>)>> >> : q \in 1..MaxQty}

---------------------------------------------------------------------------
(* The engine: the state after __init__, and one action for each method.   *)

NoCall == [called |-> FALSE, hf |-> None, diag |-> <<>>]
NoArgs == [flow_rate |-> None, pipe_length |-> None, pipe_id |-> None,
           c_factor |-> None, fittings |-> Dict(<<>>)]

Init ==
    \E sel \in Selectors :
        \E eng \in {__init__(sel)} :
            /\ selector = sel
            /\ constructed = eng.ok
            /\ unit_system = eng.unit_system
            /\ inputs = eng.inputs
            /\ results = eng.results
            /\ diag = <<>>
            /\ last = [op |-> "__init__", arg |-> sel, err |-> eng.err, ret |-> None]
            /\ last_calc = "never"
            /\ ncalls = 0
            /\ hw_args = NoArgs
            /\ hw_ret = NoCall

SetInputs(input_dict) ==
    /\ constructed
    /\ ncalls < MaxCalls
    /\ inputs' = set_inputs(inputs, input_dict)
    /\ diag' = <<>>
    /\ last' = [op |-> "set_inputs", arg |-> input_dict, err |-> NoErr, ret |-> None]
    /\ ncalls' = ncalls + 1
    /\ UNCHANGED <<selector, constructed, unit_system, results, last_calc, hw_args, hw_ret>>

\* calculate_pump_sizing as it would be if a failed call kept the earlier results
CalculateKeep ==
    /\ constructed
    /\ ncalls < MaxCalls
    /\ \E c \in {calculate_pump_sizing(unit_system, inputs)} :
           /\ results' = IF c.err = NoErr THEN c.results ELSE results
           /\ diag' = c.diag
           /\ last' = [op |-> "calculate_pump_sizing", arg |-> None, err |-> c.err,
                       ret |-> None]
           /\ last_calc' = IF c.err = NoErr THEN "ok" ELSE "failed"
    /\ ncalls' = ncalls + 1
    /\ UNCHANGED <<selector, constructed, unit_system, inputs, hw_args, hw_ret>>

Calculate ==
    /\ constructed
    /\ ncalls < MaxCalls
    /\ \E c \in {calculate_pump_sizing(unit_system, inputs)} :
           /\ results' = c.results
           /\ diag' = c.diag
           /\ last' = [op |-> "calculate_pump_sizing", arg |-> None, err |-> c.err,
                       ret |-> None]
           /\ last_calc' = IF c.err = NoErr THEN "ok" ELSE "failed"
    /\ ncalls' = ncalls + 1
    /\ UNCHANGED <<selector, constructed, unit_system, inputs, hw_args, hw_ret>>

GetResultsSummary ==
    /\ constructed
    /\ ncalls < MaxCalls
    /\ diag' = <<>>
    /\ last' = [op |-> "get_results_summary", arg |-> None, err |-> NoErr,
                ret |-> get_results_summary(unit_system, results)]
    /\ ncalls' = ncalls + 1
    /\ UNCHANGED <<selector, constructed, unit_system, inputs, results, last_calc,
                   hw_args, hw_ret>>

Next ==
    \/ \E input_dict \in InputRecords : SetInputs(input_dict)
    \/ Calculate
    \/ GetResultsSummary

Spec == Init /\ [][Next]_vars

---------------------------------------------------------------------------
(* _calculate_friction_loss_hw called on its own: the arguments are drawn  *)
(* from a grid, and one action applies the routine.                        *)

PosFlows == {I(50 * i) : i \in 1..MaxSteps}
PosLengths == {I(20 * i) : i \in 1..MaxSteps}
PosDiameters == {I(2 * i + 2) : i \in 1..MaxSteps}
PosCFactors == {I(110 + 10 * i) : i \in 1..MaxSteps}

FittingDicts ==
    {Dict(<<>>), Dict(<< <<"bogus", 1>> >>), Dict(<< <<"90_elbow_std", 0>> >>)}
    \cup {Dict(<< <<"90_elbow_std", q>> >>) : q \in 1..MaxQty}
    \cup {Dict(<< <<"entrance_sharp", 1>>, <<"bogus", 2>>, <<"gate_valve_open", q>> >>) :
             q \in 1..MaxQty}

HWArgs ==
    [flow_rate : {None, Zero, I(-50)} \cup PosFlows,
     pipe_length : {Zero} \cup PosLengths,
     pipe_id : {None, Zero, I(-4)} \cup PosDiameters,
     c_factor : {None, Zero} \cup PosCFactors,
     fittings : FittingDicts]

\* the call of the routine with the arguments a
HW(us, a) ==
    _calculate_friction_loss_hw(us, a.flow_rate, a.pipe_length, a.pipe_id, a.c_factor,
                                a.fittings)

InitHW ==
    /\ \E sel \in Selectors :
          \E eng \in {__init__(sel)} :
             /\ eng.ok
             /\ selector = sel
             /\ constructed = eng.ok
             /\ unit_system = eng.unit_system
             /\ inputs = eng.inputs
             /\ results = eng.results
             /\ last = [op |-> "__init__", arg |-> sel, err |-> eng.err, ret |-> None]
    /\ diag = <<>>
    /\ last_calc = "never"
    /\ ncalls = 0
    /\ hw_args \in HWArgs
    /\ hw_ret = NoCall

CallHW ==
    /\ constructed
    /\ ~hw_ret.called
    /\ \E r \in {HW(unit_system, hw_args)} :
          hw_ret' = [called |-> TRUE, hf |-> r.hf, diag |-> r.diag]
    /\ UNCHANGED <<selector, constructed, unit_system, inputs, results, diag, last,
                   last_calc, ncalls, hw_args>>

NextHW == CallHW

SpecHW == InitHW /\ [][NextHW]_vars

---------------------------------------------------------------------------
(* The claims.                                                             *)

Called(op) == constructed /\ last.op = op
Complete == \A k \in Keys : inputs[k] # None
Pos(a) == a.k = "fin" /\ a.m > 0

\* t is the name s with every underscore replaced by a space
Spaced(s, t) ==
    /\ Len(t) = Len(s)
    /\ \A i \in 1..Len(s) : IF s[i] = "_" THEN t[i] = " " ELSE t[i] = s[i]

\* C1: calculate_pump_sizing, called while a field of the configuration is None,
\* raises ValueError before it computes anything (no result, no diagnostic), and the
\* message names the first None field in field order with its underscores replaced by
\* spaces; when flow_rate is the first of them the message names 'flow rate'.
C1_MissingInput ==
    (Called("calculate_pump_sizing") /\ ~Complete) =>
        /\ last.err.type = "ValueError"
        /\ DOMAIN results = {}
        /\ diag = <<>>
        /\ \E i \in 1..Len(KeyOrder) :
              /\ inputs[KeyOrder[i]] = None
              /\ \A j \in 1..(i - 1) : inputs[KeyOrder[j]] # None
              /\ Len(last.err.msg) = 3
              /\ last.err.msg[1] = "Input for '"
              /\ Spaced(Chars[KeyOrder[i]], last.err.msg[2])
              /\ last.err.msg[3] = "' is missing."
        /\ (inputs["flow_rate"] = None /\ inputs["fluid_sg"] # None
              /\ inputs["pump_efficiency"] # None)
           => last.err.msg[2] = <<"f", "l", "o", "w", " ", "r", "a", "t", "e">>

\* a failed calculation whose first None field is not flow_rate, with others after it
C1_Witness ==
    /\ Called("calculate_pump_sizing")
    /\ inputs["flow_rate"] # None
    /\ inputs["suction_static_head"] = None
    /\ inputs["discharge_pipe_id"] = None
    /\ last.err.type = "ValueError"
    /\ last.err.msg[2] = <<"s", "u", "c", "t", "i", "o", "n", " ", "s", "t", "a", "t", "i",
                           "c", " ", "h", "e", "a", "d">>

\* the segment's arguments are positive and it has no fittings
PlainSegment(len, id, c, fit) ==
    /\ Pos(inputs[len]) /\ Pos(inputs[id]) /\ Pos(inputs[c])
    /\ inputs[fit] = Dict(<<>>)

\* C2: with a zero C-factor on the suction segment and nonzero flow, diameter and
\* length, the suction loss is +infinity and a diagnostic is emitted, the discharge
\* loss is computed normally, and the calculation produces a result with infinite
\* hf_total and TDH.
C2_ZeroCFactor ==
    (/\ Called("calculate_pump_sizing")
     /\ Complete
     /\ ~IsZero(inputs["fluid_sg"])
     /\ Pos(inputs["flow_rate"])
     /\ Pos(inputs["suction_pipe_length"]) /\ Pos(inputs["suction_pipe_id"])
     /\ IsZero(inputs["suction_c_factor"])
     /\ PlainSegment("discharge_pipe_length", "discharge_pipe_id", "discharge_c_factor",
                     "discharge_fittings"))
    => /\ last.err = NoErr
       /\ DOMAIN results = ResultFields
       /\ results["hf_suction"] = PosInf
       /\ diag # <<>>
       /\ Pos(results["hf_discharge"])
       /\ results["hf_total"] = PosInf
       /\ results["TDH"] = PosInf

\* one segment has zero friction: a zero-length line without fittings, or a zero
\* flow rate, C-factor or diameter
ZeroFriction(len, id, c, fit) ==
    \/ IsZero(inputs[len]) /\ inputs[fit] = Dict(<<>>)
    \/ IsZero(inputs["flow_rate"])
    \/ IsZero(inputs[c])
    \/ IsZero(inputs[id])

\* the pressure-to-head factor of the unit system
HeadFactor == IF unit_system = Imperial THEN Dec(2307, 3) ELSE Dec(102, 3)

EqIgnoreCase(a, b) ==
    /\ Len(a) = Len(b)
    /\ \A i \in 1..Len(a) :
          \/ a[i] = b[i]
          \/ \E n \in 1..26 : {a[i], b[i]} = {UpperCase[n], LowerCase[n]}

\* C4: construction succeeds exactly when the selector is 'imperial' or 'si' up to
\* case, and the unit system stored is then the lower-cased selector; any other string
\* raises ValueError and no engine exists.
C4_Construction ==
    /\ constructed <=> (EqIgnoreCase(selector, Imperial) \/ EqIgnoreCase(selector, Si))
    /\ constructed =>
          /\ unit_system \in {Imperial, Si}
          /\ EqIgnoreCase(selector, unit_system)
    /\ ~constructed =>
          /\ last.op = "__init__" /\ last.err.type = "ValueError"
          /\ inputs = Absent /\ results = Absent /\ ncalls = 0

\* an engine constructed from a selector with capital letters
C4_Witness == constructed /\ selector # unit_system /\ unit_system = Si

\* the value the record input_dict gives the key k
ItemValue(input_dict, k) ==
    input_dict[CHOOSE i \in 1..Len(input_dict) : input_dict[i][1] = k][2]

\* C5: set_inputs overwrites exactly the fields whose names occur in the record, with
\* the record's values, ignores the record's other keys, and leaves the other fields,
\* the results and the unit system as they were; the configuration keeps exactly its
\* 15 field names.
C5_SetInputs ==
    [][last'.op = "set_inputs" =>
          /\ DOMAIN inputs' = Keys
          /\ Cardinality(DOMAIN inputs') = 15
          /\ \A k \in Keys :
                inputs'[k] = IF \E i \in 1..Len(last'.arg) : last'.arg[i][1] = k
                             THEN ItemValue(last'.arg, k)
                             ELSE inputs[k]
          /\ results' = results
          /\ unit_system' = unit_system
          /\ last'.err = NoErr]_vars

\* a set_inputs call whose record held a known key and unknown ones
C5_Witness ==
    /\ Called("set_inputs")
    /\ \E i \in 1..Len(last.arg) : last.arg[i][1] \notin Keys
    /\ \E i \in 1..Len(last.arg) : last.arg[i][1] = "flow_rate"
    /\ inputs["flow_rate"] = I(100)
    /\ inputs["suction_pipe_id"] = None

\* the results are those of the same configuration with a positive efficiency, but
\* for the required power
AsForPositiveEfficiency ==
    \E r \in {calculate_pump_sizing(unit_system,
                  [inputs EXCEPT !["pump_efficiency"] = Dec(75, 2)]).results} :
        \A f \in ResultFields \ {"required_power"} : results[f] = r[f]

\* what C6 says of a calculation
SilentInfinitePower ==
    /\ last.err = NoErr
    /\ diag = <<>>
    /\ DOMAIN results = ResultFields
    /\ results["required_power"] = PosInf
    /\ AsForPositiveEfficiency

\* C6 as stated: with pump_efficiency <= 0 and no field None, calculate_pump_sizing
\* raises no error and emits no diagnostic, and stores a complete result whose
\* required_power is +infinity and whose other fields are as for a positive efficiency.
C6_Original ==
    (/\ Called("calculate_pump_sizing")
     /\ Complete
     /\ FLe(inputs["pump_efficiency"], Zero))
    => SilentInfinitePower

\* C6 as amended: the same, for a nonzero fluid_sg (a zero fluid_sg raises
\* ZeroDivisionError before the efficiency is looked at).
C6_DivisionGuard ==
    (/\ Called("calculate_pump_sizing")
     /\ Complete
     /\ ~IsZero(inputs["fluid_sg"])
     /\ FLe(inputs["pump_efficiency"], Zero))
    => SilentInfinitePower

\* a calculation with a negative efficiency and a finite, nonzero TDH
C6_Witness ==
    /\ Called("calculate_pump_sizing")
    /\ Complete
    /\ inputs["pump_efficiency"].m < 0
    /\ results["required_power"] = PosInf
    /\ Pos(results["TDH"]) /\ Pos(results["hf_total"])

\* C7: get_results_summary returns one 'no results' line when no result is held, and
\* otherwise the header, TDH with the head unit, the power with its unit, a separator
\* and the friction-loss breakdown (total, suction, discharge), in this order; it
\* changes neither the results nor the configuration, and a second call in a row
\* returns the same lines.
C7_Summary ==
    [][last'.op = "get_results_summary" =>
          /\ results' = results
          /\ inputs' = inputs
          /\ unit_system' = unit_system
          /\ last'.err = NoErr
          /\ DOMAIN results = {} =>
                last'.ret = << <<"No results to display. Please run calculation.">> >>
          /\ DOMAIN results # {} =>
                \E unit \in {IF unit_system = Imperial THEN "feet" ELSE "meters"} :
                    /\ Len(last'.ret) = 8
                    /\ last'.ret[1] = <<"### Calculation Results">>
                    /\ last'.ret[2] = <<"**Total Dynamic Head (TDH):** ",
                                        format_val(results["TDH"]), " ", unit>>
                    /\ last'.ret[3] = <<"**Required Power:** ",
                                        format_val(results["required_power"]), " ",
                                        results["power_unit"]>>
                    /\ last'.ret[4] = <<"---">>
                    /\ last'.ret[5] = <<"#### Head Breakdown">>
                    /\ last'.ret[6] = <<"**Total Friction Loss:** ",
                                        format_val(results["hf_total"]), " ", unit>>
                    /\ last'.ret[7][2] = format_val(results["hf_suction"])
                    /\ last'.ret[8][2] = format_val(results["hf_discharge"])
                    /\ last'.ret[7][4] = unit /\ last'.ret[8][4] = unit
          /\ last.op = "get_results_summary" => last'.ret = last.ret]_vars

\* a summary, made as the fourth call on the engine, of a complete result whose two
\* losses differ
C7_Witness ==
    /\ Called("get_results_summary")
    /\ ncalls = 4
    /\ DOMAIN results # {}
    /\ Len(last.ret) = 8
    /\ results["hf_suction"] # results["hf_discharge"]
    /\ Pos(results["hf_suction"])

DiameterInLengthUnits(a) ==
    IF unit_system = Imperial THEN FDiv(a.pipe_id, I(12)) ELSE a.pipe_id

\* length + the sum, over the first n fittings with a quantity > 0 and a type of the
\* catalog, of quantity * ratio * diameter in length units
RECURSIVE EquivalentLength(_, _)
EquivalentLength(a, n) ==
    IF n = 0 THEN a.pipe_length
    ELSE IF a.fittings.d[n][2] > 0
            /\ a.fittings.d[n][1] \in DOMAIN fitting_equivalent_lengths_D
         THEN FAdd(EquivalentLength(a, n - 1),
                   FMul(FMul(I(a.fittings.d[n][2]),
                             fitting_equivalent_lengths_D[a.fittings.d[n][1]]),
                        DiameterInLengthUnits(a)))
         ELSE EquivalentLength(a, n - 1)

\* g is f with the quantity of one fitting of the catalog raised, f's being positive
MoreOfOneFitting(f, g) ==
    /\ Len(g.d) = Len(f.d)
    /\ \E i \in 1..Len(f.d) :
          /\ f.d[i][1] \in DOMAIN fitting_equivalent_lengths_D
          /\ 0 < f.d[i][2] /\ f.d[i][2] < g.d[i][2]
          /\ \A j \in 1..Len(f.d) : g.d[j][1] = f.d[j][1] /\ (j # i => g.d[j] = f.d[j])

\* the loss with argument arg of hw_args replaced by v
HfWith(arg, v) == HW(unit_system, [hw_args EXCEPT ![arg] = v]).hf

\* C9: with all parameters positive the friction loss is strictly increasing in the
\* flow rate, the length and the quantity of a fitting, and strictly decreasing in the
\* C-factor and the diameter; the fittings enter through the equivalent length
\* length + sum of quantity * ratio * diameter in length units, over the fittings with
\* a quantity > 0 and a type of the catalog.
C9_Monotone ==
    (/\ hw_ret.called
     /\ Pos(hw_args.flow_rate) /\ Pos(hw_args.pipe_length)
     /\ Pos(hw_args.pipe_id) /\ Pos(hw_args.c_factor))
    => /\ Pos(hw_ret.hf)
       /\ \A q \in PosFlows :
             FLt(hw_args.flow_rate, q) => FLt(hw_ret.hf, HfWith("flow_rate", q))
       /\ \A l \in PosLengths :
             FLt(hw_args.pipe_length, l) => FLt(hw_ret.hf, HfWith("pipe_length", l))
       /\ \A f \in FittingDicts :
             MoreOfOneFitting(hw_args.fittings, f) =>
                 FLt(hw_ret.hf, HfWith("fittings", f))
       /\ \A c \in PosCFactors :
             FLt(hw_args.c_factor, c) => FLt(HfWith("c_factor", c), hw_ret.hf)
       /\ \A d \in PosDiameters :
             FLt(hw_args.pipe_id, d) => FLt(HfWith("pipe_id", d), hw_ret.hf)
       /\ hw_ret.hf
            = HW(unit_system,
                 [hw_args EXCEPT !.fittings = Dict(<<>>),
                                 !.pipe_length =
                                     EquivalentLength(hw_args, Len(hw_args.fittings.d))]).hf

\* a call with positive arguments and fittings of the catalog and outside it, below
\* the top of the grid in every argument
C9_Witness ==
    /\ hw_ret.called
    /\ unit_system = Imperial
    /\ hw_args.flow_rate = I(50) /\ hw_args.pipe_length = I(20)
    /\ hw_args.pipe_id = I(4) /\ hw_args.c_factor = I(120)
    /\ hw_args.fittings
         = Dict(<< <<"entrance_sharp", 1>>, <<"bogus", 2>>, <<"gate_valve_open", 1>> >>)
    /\ Pos(hw_ret.hf)

\* C10 (state): the results are empty or a record with the 8 result fields, and empty
\* exactly when no calculation was run or the most recent one failed.
C10_State ==
    constructed =>
        /\ DOMAIN results \in {{}, ResultFields}
        /\ Cardinality(ResultFields) = 8
        /\ DOMAIN results = {} <=> last_calc \in {"never", "failed"}

\* C10: after any sequence of calls the results are empty or complete, empty exactly
\* when no calculation was run or the most recent one failed, and
\* calculate_pump_sizing changes neither the configuration nor the unit system.
C10_Results ==
    /\ []C10_State
    /\ [][last'.op = "calculate_pump_sizing" =>
             /\ inputs' = inputs
             /\ unit_system' = unit_system
             /\ last_calc' = IF last'.err = NoErr THEN "ok" ELSE "failed"]_vars

\* a failed calculation on a configuration that had been completed by the form
C10_Witness ==
    /\ Called("calculate_pump_sizing")
    /\ ncalls = 4
    /\ last_calc = "failed"
    /\ DOMAIN results = {}
    /\ inputs["flow_rate"] = None
    /\ inputs["discharge_pipe_id"] # None

====
